---- MODULE Spec2Model ----
(* A model of the marku pipeline orchestration engine: the dependency      *)
(* resolver and executor of src/src/marku/pipeline.py, the plugin registry *)
(* of src/src/marku/core/plugins.py and the git-backed undo manager of     *)
(* src/src/marku/core/undo_git.py.                                         *)
EXTENDS Integers, Sequences, FiniteSets, TLC

(***************************************************************************)
(* Bounds of the model.                                                    *)
(***************************************************************************)
\* largest number of names in one step's depends list
MaxDeps == 2
\* largest length of the pipeline's sequence hint
MaxHint == 3
\* largest number of runs of the same pipeline over the same files
MaxRuns == 2
\* texts of the input files are the numbers 0..MaxText
MaxText == 3
\* contents of a file of the repository are the numbers 1..MaxBytes
MaxBytes == 2
\* largest number of operations on the repository
MaxOps == 4
MaxCommits == 4
MaxLimit == 2

(***************************************************************************)
(* Program constants.                                                      *)
(***************************************************************************)
\* rank of a step without an order (pipeline.py:335)
NoOrderRank == 10000
\* base rank of a step the hint does not name, in order_map (pipeline.py:333)
UnhintedRank == 10000
\* hint index of a step the hint does not name, in the final sort (pipeline.py:353)
UnhintedIndex == 10000
\* how many commits undo_latest looks through (undo_git.py:67)
UndoSearchDepth == 20

(***************************************************************************)
(* Generic helpers: Python lists as sequences, dict key order.             *)
(***************************************************************************)
Range(s) == {s[i] : i \in DOMAIN s}

\* lexicographic order on tuples of integers of equal length (Python tuple <)
RECURSIVE TupleLess(_, _)
TupleLess(a, b) ==
    IF a = <<>> \/ b = <<>> THEN a = <<>> /\ b # <<>>
    ELSE IF Head(a) # Head(b) THEN Head(a) < Head(b)
    ELSE TupleLess(Tail(a), Tail(b))

\* list.sort(key=...): insert x into the sorted list s, after equal keys (stable)
RECURSIVE InsertByKey(_, _, _)
InsertByKey(x, s, key) ==
    IF s = <<>> THEN <<x>>
    ELSE IF TupleLess(key[x], key[Head(s)]) THEN <<x>> \o s
    ELSE <<Head(s)>> \o InsertByKey(x, Tail(s), key)

RECURSIVE SortByKey(_, _)
SortByKey(s, key) ==
    IF s = <<>> THEN <<>>
    ELSE InsertByKey(s[Len(s)], SortByKey(SubSeq(s, 1, Len(s) - 1), key), key)

\* a set's elements as a list, in some fixed order (iteration order of a Python set)
RECURSIVE SetToSeq(_)
SetToSeq(S) ==
    IF S = {} THEN <<>>
    ELSE LET x == CHOOSE y \in S : TRUE IN <<x>> \o SetToSeq(S \ {x})

\* keys of a dict built from the list s: each value once, in order of first occurrence
RECURSIVE DictKeys(_)
DictKeys(s) ==
    IF s = <<>> THEN <<>>
    ELSE LET front == DictKeys(SubSeq(s, 1, Len(s) - 1)) IN
         IF s[Len(s)] \in Range(front) THEN front ELSE Append(front, s[Len(s)])

\* the sublist of s of the elements that satisfy the predicate given as a set
RECURSIVE Filter(_, _)
Filter(s, keep) ==
    IF s = <<>> THEN <<>>
    ELSE IF Head(s) \in keep THEN <<Head(s)>> \o Filter(Tail(s), keep)
    ELSE Filter(Tail(s), keep)

\* index of the last element of s equal to x: the value a dict comprehension
\* over enumerate(s) keeps for the key x
LastIndex(s, x) == CHOOSE i \in DOMAIN s : s[i] = x /\ \A j \in DOMAIN s : s[j] = x => j <= i

(***************************************************************************)
(* PipelineExecutor._resolve_order (pipeline.py:313-354).                  *)
(* A step is a record; steps is the list config.steps; sequence is         *)
(* config.sequence.  An absent order (None) is <<>>, order v is <<v>>.     *)
(***************************************************************************)
NamesOf(steps) == [i \in DOMAIN steps |-> steps[i].name]

\* name_map = {s.name: s for s in steps}: the index of the step a name maps to
NameMap(steps, n) == LastIndex(NamesOf(steps), n)

\* edges: from -> to, one edge dep -> s.name for each dep of s that names a step
Edges(steps) ==
    [n \in Range(NamesOf(steps)) |->
        {steps[i].name : i \in {j \in DOMAIN steps : n \in steps[j].depends}}]

\* mutant: an edge from a step to itself is not counted
InDegreeIgnoringSelf(steps) ==
    LET edges == Edges(steps) IN
    [t \in DOMAIN edges |-> Cardinality({frm \in DOMAIN edges \ {t} : t \in edges[frm]})]

\* indeg[t] += 1 for each frm with t in edges[frm]
InDegree(steps) ==
    LET edges == Edges(steps) IN
    [t \in DOMAIN edges |-> Cardinality({frm \in DOMAIN edges : t \in edges[frm]})]

\* seq_pos = {name: idx for idx, name in enumerate(sequence)}, 0-based
SeqPos(sequence, n) == LastIndex(sequence, n) - 1

\* mutant: a step without an order ranks first
OrderMapNoOrderFirst(steps, sequence) ==
    [n \in Range(NamesOf(steps)) |->
        LET i == NameMap(steps, n) - 1 IN
        IF sequence # <<>>
        THEN <<IF n \in Range(sequence) THEN SeqPos(sequence, n) ELSE UnhintedRank + i, i>>
        ELSE <<IF steps[i + 1].order # <<>> THEN steps[i + 1].order[1] ELSE 0, i>>]

\* mutant: under a hint, a step the hint does not name ranks by its declared order
OrderMapOrderUnderHint(steps, sequence) ==
    [n \in Range(NamesOf(steps)) |->
        LET i == NameMap(steps, n) - 1 IN
        IF sequence # <<>>
        THEN <<IF n \in Range(sequence) THEN SeqPos(sequence, n)
               ELSE IF steps[i + 1].order # <<>> THEN steps[i + 1].order[1]
               ELSE UnhintedRank + i, i>>
        ELSE <<IF steps[i + 1].order # <<>> THEN steps[i + 1].order[1] ELSE NoOrderRank, i>>]

\* order_map[s.name]: the composite sort key, computed once
OrderMap(steps, sequence) ==
    [n \in Range(NamesOf(steps)) |->
        LET i == NameMap(steps, n) - 1 IN
        IF sequence # <<>>
        THEN <<IF n \in Range(sequence) THEN SeqPos(sequence, n) ELSE UnhintedRank + i, i>>
        ELSE <<IF steps[i + 1].order # <<>> THEN steps[i + 1].order[1] ELSE NoOrderRank, i>>]

\* the while loop of Kahn's algorithm: pop the head of ready, release its successors,
\* sort ready again
RECURSIVE KahnLoop(_, _, _, _, _)
KahnLoop(ready, result, indeg, edges, order_map) ==
    IF ready = <<>> THEN [result |-> result, indeg |-> indeg]
    ELSE LET n == Head(ready)
             indeg2 == [m \in DOMAIN indeg |->
                           IF m \in edges[n] THEN indeg[m] - 1 ELSE indeg[m]]
             freed == {m \in edges[n] : indeg2[m] = 0}
         IN  KahnLoop(SortByKey(Tail(ready) \o SetToSeq(freed), order_map),
                      Append(result, n), indeg2, edges, order_map)

\* mutant: the order of Kahn's loop is returned as it is
FinalSortSkipped(result, steps, sequence) == result

\* result.sort(key=lambda n: (seq_index.get(n, 10_000), order_map[n])) when a hint is given
FinalSort(result, steps, sequence) ==
    IF sequence # <<>>
    THEN LET order_map == OrderMap(steps, sequence)
             key == [n \in Range(result) |->
                        <<IF n \in Range(sequence) THEN SeqPos(sequence, n) ELSE UnhintedIndex>>
                        \o order_map[n]]
         IN  SortByKey(result, key)
    ELSE result

\* mutant: the error lists the steps by their in-degree before the loop
ResolveOrderInitialInDegree(steps, sequence) ==
    LET edges == Edges(steps)
        indeg == InDegree(steps)
        order_map == OrderMap(steps, sequence)
        keys == DictKeys(NamesOf(steps))
        ready == SortByKey(Filter(keys, {n \in DOMAIN indeg : indeg[n] = 0}), order_map)
        k == KahnLoop(ready, <<>>, indeg, edges, order_map)
    IN  IF Len(k.result) # Len(steps)
        THEN [ok |-> FALSE, order |-> <<>>,
              cycle |-> Filter(keys, {n \in DOMAIN indeg : indeg[n] > 0})]
        ELSE LET sorted == FinalSort(k.result, steps, sequence) IN
             [ok |-> TRUE, order |-> [j \in DOMAIN sorted |-> NameMap(steps, sorted[j])],
              cycle |-> <<>>]

\* the whole function: ok with the ordered steps (as indices into steps), or the
\* RuntimeError with its cycle list
ResolveOrder(steps, sequence) ==
    LET edges == Edges(steps)
        indeg == InDegree(steps)
        order_map == OrderMap(steps, sequence)
        keys == DictKeys(NamesOf(steps))
        ready == SortByKey(Filter(keys, {n \in DOMAIN indeg : indeg[n] = 0}), order_map)
        k == KahnLoop(ready, <<>>, indeg, edges, order_map)
    IN  IF Len(k.result) # Len(steps)
        THEN [ok |-> FALSE, order |-> <<>>,
              cycle |-> Filter(keys, {n \in DOMAIN indeg : k.indeg[n] > 0})]
        ELSE LET sorted == FinalSort(k.result, steps, sequence) IN
             [ok |-> TRUE, order |-> [j \in DOMAIN sorted |-> NameMap(steps, sorted[j])],
              cycle |-> <<>>]

(***************************************************************************)
(* The processing modules a step can name.  Texts are abstracted to        *)
(* numbers read as bit sets: bit 0 = the text has full-width punctuation   *)
(* (rewritten by content_replace), bit 1 = it has consecutive same-level   *)
(* headers (rewritten by the consecutive_header script).                   *)
(***************************************************************************)
\* core/registry.py REGISTRY: module name -> class
REGISTRY == [content_replace |-> "ContentReplaceModule"]

\* importable python modules that are script adapters: their classes and Runner alias
ScriptModules ==
    [m \in {"marku.scripts.consecutive_header_adapter", "marku.scripts.content_dedup_adapter"} |->
        IF m = "marku.scripts.consecutive_header_adapter"
        THEN [classes |-> {"ConsecutiveHeaderRunner"}, Runner |-> ""]
        ELSE [classes |-> {"ContentDedupRunner"}, Runner |-> "ContentDedupRunner"]]

\* _apply_patterns over BASE_PATTERNS: clears bit 0
ApplyPatterns(text) == IF text % 2 = 1 THEN text - 1 ELSE text

\* ConsecutiveHeaderProcessor._process_lines: clears bit 1
ProcessLines(text) == IF (text \div 2) % 2 = 1 THEN text - 2 ELSE text

\* deduplicate_titles: clears bit 1 as well (a repeated title is dropped)
DeduplicateTitles(text) == IF (text \div 2) % 2 = 1 THEN text - 2 ELSE text

\* difflib.unified_diff(original, new, fromfile=file, tofile=file): determined by
\* the two texts and the path
UnifiedDiff(file, original, new_text) == [file |-> file, from |-> original, to |-> new_text]

\* BaseModule._maybe_write: the file's content afterwards, the diffs list afterwards and
\* the returned flag
MaybeWrite(file, original, new_text, dry_run, diffs) ==
    IF original = new_text
    THEN [content |-> original, diffs |-> diffs, modified |-> FALSE]
    ELSE IF dry_run
    THEN [content |-> original,
          diffs |-> Append(diffs, UnifiedDiff(file, original, new_text)),
          modified |-> TRUE]
    ELSE [content |-> new_text, diffs |-> diffs, modified |-> TRUE]

\* context.shared as a dict: a function on its keys
DictSet(d, k, v) == [x \in DOMAIN d \cup {k} |-> IF x = k THEN v ELSE d[x]]
DictGet(d, k, default) == IF k \in DOMAIN d THEN d[k] ELSE default
EmptyDict == [x \in {} |-> TRUE]

\* the empty payload {} of module_data
EmptyData == [kind |-> "empty", changed |-> 0, diffs |-> <<>>, details |-> <<>>]

\* Python truthiness of a value stored in context.shared
Truthy(v) == v # EmptyData

\* ContentReplaceModule.run on the one markdown file of the input directory
ContentReplaceRun(shared, fs, cfg) ==
    IF cfg.opts = "invalid" THEN [raised |-> TRUE, shared |-> shared, files |-> fs]
    ELSE LET file == cfg.input
             orig == fs[file]
             w == MaybeWrite(file, orig, ApplyPatterns(orig),
                             DictGet(shared, "__dry_run", FALSE), <<>>)
         IN  [raised |-> FALSE,
              shared |-> DictSet(shared, "content_replace",
                            [kind |-> "module", changed |-> IF w.modified THEN 1 ELSE 0,
                             diffs |-> w.diffs,
                             details |-> <<[file |-> file, changed |-> w.modified]>>]),
              files |-> [fs EXCEPT ![file] = w.content]]

\* ConsecutiveHeaderRunner.run: process_file rewrites the file in place
ConsecutiveHeaderRunnerRun(shared, fs, cfg) ==
    IF cfg.opts = "invalid" THEN [raised |-> TRUE, shared |-> shared, files |-> fs]
    ELSE LET file == cfg.input
             before == fs[file]
             after == ProcessLines(before)
         IN  [raised |-> FALSE,
              shared |-> DictSet(shared, "consecutive_header",
                            [kind |-> "runner", changed |-> IF before # after THEN 1 ELSE 0,
                             diffs |-> <<>>,
                             details |-> <<[file |-> file, changed |-> before # after]>>]),
              files |-> [fs EXCEPT ![file] = after]]

\* ContentDedupRunner.run: f.write_text(text) for every file, nothing put in shared
ContentDedupRunnerRun(shared, fs, cfg) ==
    IF cfg.opts = "invalid" THEN [raised |-> TRUE, shared |-> shared, files |-> fs]
    ELSE [raised |-> FALSE, shared |-> shared,
          files |-> [fs EXCEPT ![cfg.input] = DeduplicateTitles(fs[cfg.input])]]

\* runner.run(self.context, step.config), by the class of the runner
RunnerRun(cls, shared, fs, cfg) ==
    IF cls = "ContentReplaceModule" THEN ContentReplaceRun(shared, fs, cfg)
    ELSE IF cls = "ConsecutiveHeaderRunner" THEN ConsecutiveHeaderRunnerRun(shared, fs, cfg)
    ELSE ContentDedupRunnerRun(shared, fs, cfg)

\* PipelineExecutor._instantiate: the class of the runner, or "" when it raises
Instantiate(step) ==
    IF step.module \in DOMAIN REGISTRY /\ step.clazz = "" THEN REGISTRY[step.module]
    ELSE IF step.module \notin DOMAIN ScriptModules THEN ""
    ELSE IF step.clazz # ""
         THEN IF step.clazz \in ScriptModules[step.module].classes THEN step.clazz ELSE ""
    ELSE ScriptModules[step.module].Runner

\* mutant: the aliases are not merged
NormalizeStepInputNoAlias(cfg) == cfg

\* PipelineExecutor._normalize_step_input: the first non-empty alias becomes input
NormalizeStepInput(cfg) ==
    IF cfg.input # "" THEN cfg
    ELSE IF cfg.path # "" THEN [cfg EXCEPT !.input = cfg.path]
    ELSE cfg

(***************************************************************************)
(* State of one pipeline run (PipelineExecutor.run, pipeline.py:141-285).  *)
(***************************************************************************)
VARIABLES
    toml,           \* the pipeline description file PipelineLoader.load reads
    config,         \* executor.config: enable, sequence, steps, global_input
    dry_run,        \* executor.dry_run
    report_path,    \* whether a report artifact was requested
    files,          \* content of the markdown file under each input path
    files0,         \* content of the files when the current run started
    shared,         \* context.shared
    pc,             \* position in run(): start, loop, break, done, raised
    ordered_steps,  \* the resolved order, as indices into config.steps
    idx,            \* position of the step loop in ordered_steps
    step_reports,   \* step_reports of the current run
    report,         \* the report artifact, <<>> while none is written
    invoked,        \* the steps whose runner.run was called in this run, in order
    run_no,         \* number of the current run over the same files
    past_runs       \* [reports, files0, files1] of each earlier run

execVars == <<toml, config, dry_run, report_path, files, files0, shared, pc, ordered_steps, idx,
              step_reports, report, invoked, run_no, past_runs>>

(***************************************************************************)
(* State of the plugin registry (plugins.py) and of the process around it. *)
(***************************************************************************)
VARIABLES
    plugin_registry,  \* the global PluginRegistry: pm, legacy_registry, discovered_plugins,
                      \* origins, disabled
    initialized,      \* the module global _initialized
    environment,      \* what the installation offers: entry points, importable registry
    last_call,        \* the latest call on the registry: op, name, ret
    prev_call         \* the call before it

regVars == <<plugin_registry, initialized, environment, last_call, prev_call>>

(***************************************************************************)
(* State of the git repository GitUndoManager works on (undo_git.py).      *)
(***************************************************************************)
VARIABLES
    commits,          \* the history up to HEAD, oldest first: tagged, summary, tree
    index,            \* the staging area
    worktree,         \* the files of the working tree
    undo_log          \* the operations on the repository so far: op, ret, worktree after

undoVars == <<commits, index, worktree, undo_log>>

RunStart ==
    /\ pc = "start"
    /\ IF ~config.enable
       THEN /\ pc' = "done"
            /\ UNCHANGED <<shared, ordered_steps, idx>>
       ELSE LET r == ResolveOrder(config.steps, config.sequence) IN
            /\ shared' = IF dry_run THEN DictSet(shared, "__dry_run", TRUE) ELSE shared
            /\ IF r.ok
               THEN pc' = "loop" /\ ordered_steps' = r.order /\ idx' = 1
               ELSE pc' = "raised" /\ UNCHANGED <<ordered_steps, idx>>
    /\ UNCHANGED <<toml, config, dry_run, report_path, files, files0, step_reports, report,
                   invoked, run_no, past_runs>>
    /\ UNCHANGED <<regVars, undoVars>>

\* module_data = shared.get(step.module) or shared.get(step.name) or {}
ModuleData(sh, step) ==
    IF Truthy(DictGet(sh, step.module, EmptyData)) THEN sh[step.module]
    ELSE IF Truthy(DictGet(sh, step.name, EmptyData)) THEN sh[step.name]
    ELSE EmptyData

\* mutant: any failed step ends the run
HaltsOnAnyError(error, step) == error # <<>>

\* if not step.skip_on_error: break (pipeline.py:195-197), reached only from the except
HaltsRun(error, step) == error # <<>> /\ ~step.skip_on_error

\* one iteration of the step loop (pipeline.py:166-240)
RunStep ==
    /\ pc = "loop"
    /\ idx <= Len(ordered_steps)
    /\ LET i == ordered_steps[idx]
           step == config.steps[i]
       IN
       IF ~step.enabled
       THEN /\ idx' = idx + 1
            /\ UNCHANGED <<config, shared, files, pc, step_reports, invoked>>
       ELSE IF step.config.input = "" /\ config.global_input = ""
       THEN /\ idx' = idx + 1
            /\ UNCHANGED <<config, shared, files, pc, step_reports, invoked>>
       ELSE LET cfg1 == NormalizeStepInput(step.config)
                cls == Instantiate(step)
                cfg2 == IF cls # "" /\ cfg1.input = "" /\ config.global_input # ""
                        THEN [cfg1 EXCEPT !.input = config.global_input]
                        ELSE cfg1
                out == IF cls = ""
                       THEN [raised |-> TRUE, shared |-> shared, files |-> files]
                       ELSE RunnerRun(cls, shared, files, cfg2)
                error == IF cls = "" THEN <<"instantiate">>
                         ELSE IF out.raised THEN <<"run">> ELSE <<>>
            IN  /\ config' = [config EXCEPT !.steps[i].config = cfg2]
                /\ shared' = out.shared
                /\ files' = out.files
                /\ invoked' = IF cls # "" THEN Append(invoked, i) ELSE invoked
                /\ IF HaltsRun(error, step)
                   THEN pc' = "break" /\ UNCHANGED <<idx, step_reports>>
                   ELSE /\ pc' = pc
                        /\ idx' = idx + 1
                        /\ step_reports' = Append(step_reports,
                              [name |-> step.name, module |-> step.module,
                               order |-> step.order, error |-> error,
                               data |-> ModuleData(out.shared, step)])
    /\ UNCHANGED <<toml, dry_run, report_path, files0, ordered_steps, report, run_no, past_runs>>
    /\ UNCHANGED <<regVars, undoVars>>

\* after the loop (pipeline.py:241-285): the report artifact, when requested
RunFinish ==
    /\ IF pc = "loop" THEN idx > Len(ordered_steps) ELSE pc = "break"
    /\ pc' = "done"
    /\ report' = IF report_path
                 THEN <<[dry_run |-> dry_run, steps |-> step_reports]>>
                 ELSE report
    /\ UNCHANGED <<toml, config, dry_run, report_path, files, files0, shared, ordered_steps,
                   idx, step_reports, invoked, run_no, past_runs>>
    /\ UNCHANGED <<regVars, undoVars>>

\* run_pipeline once more (pipeline.py:369-372): the description is loaded again, a new
\* executor and context are built, the files are as the last run left them
RunAgain ==
    /\ pc \in {"done", "raised"}
    /\ run_no < MaxRuns
    /\ past_runs' = Append(past_runs, [reports |-> step_reports, files0 |-> files0,
                                      files1 |-> files, pc |-> pc])
    /\ run_no' = run_no + 1
    /\ config' = toml
    /\ shared' = EmptyDict
    /\ pc' = "start"
    /\ ordered_steps' = <<>>
    /\ idx' = 0
    /\ step_reports' = <<>>
    /\ report' = <<>>
    /\ invoked' = <<>>
    /\ files0' = files
    /\ UNCHANGED <<toml, dry_run, report_path, files>>
    /\ UNCHANGED <<regVars, undoVars>>

(***************************************************************************)
(* The plugin registry (plugins.py).  pm is pluggy's table of registered   *)
(* plugins by name (PluginManager._name2plugin), the live dispatch table.  *)
(* A plugin object is a record; id tells apart objects of the same kind.   *)
(***************************************************************************)
\* PluginRegistry.__init__ (plugins.py:41-47)
NewPluginRegistry ==
    [pm |-> EmptyDict, legacy_registry |-> EmptyDict, discovered_plugins |-> EmptyDict,
     origins |-> EmptyDict, disabled |-> {}]

\* LegacyModuleWrapper(module_class), built for the registration of name
LegacyModuleWrapper(name, module_class) ==
    [kind |-> "LegacyModuleWrapper", module_class |-> module_class, id |-> name]
\* the object an entry point loads
EntryPointPlugin(name) == [kind |-> "entry_point", module_class |-> "", id |-> name]
\* the module object initialize_plugins imports for a built-in name
BuiltinModule(name) == [kind |-> "module", module_class |-> "", id |-> name]

\* PluginManager.has_plugin
HasPlugin(r, name) == name \in DOMAIN r.pm

\* PluginManager.register(plugin, name=name): ValueError when the name or the object is
\* registered already
PmRegister(pm, plugin, name) ==
    IF name \in DOMAIN pm \/ plugin \in Range(pm)
    THEN [raised |-> TRUE, pm |-> pm]
    ELSE [raised |-> FALSE, pm |-> DictSet(pm, name, plugin)]

\* PluginManager.unregister(name=name)
PmUnregister(pm, name) == [n \in DOMAIN pm \ {name} |-> pm[n]]

\* mutant: an entry point that fails to load is registered all the same
RECURSIVE LoadSetuptoolsEntrypointsUnloaded(_, _, _)
LoadSetuptoolsEntrypointsUnloaded(pm, eps, k) ==
    IF k > Len(eps) THEN [raised |-> FALSE, pm |-> pm]
    ELSE IF eps[k].name \in DOMAIN pm THEN LoadSetuptoolsEntrypointsUnloaded(pm, eps, k + 1)
    ELSE LET reg == PmRegister(pm, EntryPointPlugin(eps[k].name), eps[k].name) IN
         IF reg.raised THEN reg ELSE LoadSetuptoolsEntrypointsUnloaded(reg.pm, eps, k + 1)

\* PluginManager.load_setuptools_entrypoints: each entry point of the group, in turn,
\* is skipped when its name is registered, else loaded and registered; a failing load
\* raises out of the call
RECURSIVE LoadSetuptoolsEntrypoints(_, _, _)
LoadSetuptoolsEntrypoints(pm, eps, k) ==
    IF k > Len(eps) THEN [raised |-> FALSE, pm |-> pm]
    ELSE IF eps[k].name \in DOMAIN pm THEN LoadSetuptoolsEntrypoints(pm, eps, k + 1)
    ELSE IF ~eps[k].loads THEN [raised |-> TRUE, pm |-> pm]
    ELSE LET reg == PmRegister(pm, EntryPointPlugin(eps[k].name), eps[k].name) IN
         IF reg.raised THEN reg ELSE LoadSetuptoolsEntrypoints(reg.pm, eps, k + 1)

\* PluginRegistry.register_legacy_module (plugins.py:49-58)
RegisterLegacyModule(r, name, module_class) ==
    IF HasPlugin(r, name) THEN r
    ELSE [r EXCEPT !.legacy_registry = DictSet(@, name, module_class)]

\* the plugins, a table by name, are registered and recorded with the origin
RegisterAll(r, plugins, origin) ==
    LET S == DOMAIN plugins IN
    [r EXCEPT !.pm = [n \in DOMAIN r.pm \cup S |-> IF n \in S THEN plugins[n] ELSE r.pm[n]],
              !.discovered_plugins =
                  [n \in DOMAIN r.discovered_plugins \cup S |->
                      IF n \in S THEN plugins[n] ELSE r.discovered_plugins[n]],
              !.origins = [n \in DOMAIN r.origins \cup S |->
                              IF n \in S THEN origin ELSE r.origins[n]]]

\* PluginRegistry.discover_plugins (plugins.py:60-108)
DiscoverPlugins(r, env) ==
    LET loaded == LoadSetuptoolsEntrypoints(r.pm, env.entry_points, 1)
        new == IF loaded.raised THEN {} ELSE DOMAIN loaded.pm \ DOMAIN r.pm
        r1 == [RegisterAll(r, [n \in new |-> loaded.pm[n]], "entry_point")
                  EXCEPT !.pm = loaded.pm]
        wrapped == {n \in DOMAIN r1.legacy_registry : ~HasPlugin(r1, n)}
    IN  RegisterAll(r1, [n \in wrapped |-> LegacyModuleWrapper(n, r1.legacy_registry[n])],
                    "legacy")

\* builtin_modules of initialize_plugins (plugins.py:260-269), those of REGISTRY
BuiltinModules == DOMAIN REGISTRY

\* initialize_plugins after the _initialized test (plugins.py:246-283)
InitializePlugins(r, env) ==
    LET imported == IF env.registry_imports
                    THEN {n \in DOMAIN REGISTRY : ~HasPlugin(r, n)}
                    ELSE {}
        r1 == [r EXCEPT !.legacy_registry =
                  [n \in DOMAIN @ \cup imported |-> IF n \in imported THEN REGISTRY[n] ELSE @[n]]]
        r2 == DiscoverPlugins(r1, env)
        builtin == {n \in BuiltinModules : ~HasPlugin(r2, n)}
    IN  RegisterAll(r2, [n \in builtin |-> BuiltinModule(n)], "builtin")

\* PluginRegistry.disable (plugins.py:160-168)
Disable(r, name) ==
    [r EXCEPT !.pm = IF HasPlugin(r, name) THEN PmUnregister(@, name) ELSE @,
              !.disabled = @ \cup {name}]

\* mutant: only a legacy class is looked up
SavedPluginLegacyOnly(r, name) ==
    IF name \in DOMAIN r.legacy_registry
    THEN <<LegacyModuleWrapper(name, r.legacy_registry[name])>>
    ELSE <<>>

\* the plugin enable registers again (plugins.py:178-180), <<>> for None
SavedPlugin(r, name) ==
    IF name \in DOMAIN r.discovered_plugins THEN <<r.discovered_plugins[name]>>
    ELSE IF name \in DOMAIN r.legacy_registry
    THEN <<LegacyModuleWrapper(name, r.legacy_registry[name])>>
    ELSE <<>>

\* PluginRegistry.enable (plugins.py:170-187): the registry after the call and what it
\* returns
Enable(r, name) ==
    IF HasPlugin(r, name)
    THEN [ret |-> TRUE, registry |-> [r EXCEPT !.disabled = @ \ {name}]]
    ELSE LET plugin == SavedPlugin(r, name) IN
         IF plugin = <<>> THEN [ret |-> FALSE, registry |-> r]
         ELSE LET reg == PmRegister(r.pm, plugin[1], name) IN
              IF reg.raised THEN [ret |-> FALSE, registry |-> r]
              ELSE [ret |-> TRUE,
                    registry |-> [r EXCEPT !.pm = reg.pm, !.disabled = @ \ {name}]]

\* names the calls are made with: an entry point's, a core module's, a user's module
PluginNames == {"alpha", "content_replace", "custom"}
\* the classes a user registers under "custom"
CustomClasses == {"CustomA", "CustomB"}

Call(op, name, ret) == [op |-> op, name |-> name, ret |-> ret]

\* a call on the registry took it to r and returned ret
Called(op, name, ret, r) ==
    /\ plugin_registry' = r
    /\ last_call' = Call(op, name, ret)
    /\ prev_call' = last_call
    /\ UNCHANGED <<environment, execVars, undoVars>>

register_legacy_module ==
    \E module_class \in CustomClasses :
        /\ Called("register_legacy_module", "custom", TRUE,
                  RegisterLegacyModule(plugin_registry, "custom", module_class))
        /\ UNCHANGED initialized

discover_plugins ==
    /\ Called("discover_plugins", "", TRUE, DiscoverPlugins(plugin_registry, environment))
    /\ UNCHANGED initialized

initialize_plugins ==
    /\ Called("initialize_plugins", "", TRUE,
              IF initialized THEN plugin_registry
              ELSE InitializePlugins(plugin_registry, environment))
    /\ initialized' = TRUE

disable ==
    \E name \in PluginNames :
        /\ Called("disable", name, TRUE, Disable(plugin_registry, name))
        /\ UNCHANGED initialized

enable ==
    \E name \in PluginNames :
        LET out == Enable(plugin_registry, name) IN
        /\ Called("enable", name, out.ret, out.registry)
        /\ UNCHANGED initialized

(***************************************************************************)
(* LegacyModuleWrapper.run (plugins.py:199-226) over what a legacy class   *)
(* does when it is instantiated and run.                                   *)
(***************************************************************************)
\* python values a legacy run returns: a dict by its items, None, and values of another type
PyDict(items) == [type |-> "dict", items |-> items]
PyNone == [type |-> "NoneType", items |-> EmptyDict]
PyOther(type) == [type |-> type, items |-> EmptyDict]
IsInstanceDict(value) == value.type = "dict"

\* the outcome of a call: an exception with its message, or a returned value
Raise(message) == [raised |-> TRUE, message |-> message, value |-> PyNone]
Return(value) == [raised |-> FALSE, message |-> "", value |-> value]

\* the mapping returned for a result that is not a dict (plugins.py:214-219)
WrappedResult(result) ==
    PyDict([ok |-> TRUE, changed |-> TRUE, result |-> result,
            details |-> <<"done", result>>])

\* the mapping returned from the except branch (plugins.py:221-226)
FailedResult(message) ==
    PyDict([ok |-> FALSE, error |-> message, details |-> <<"failed", message>>])

\* the body of the try block (plugins.py:203-219): module_class(), instance.run(...),
\* then the normalisation of the result
LegacyTry(behaviour) ==
    IF behaviour.init.raised THEN behaviour.init
    ELSE IF behaviour.run.raised THEN behaviour.run
    ELSE IF IsInstanceDict(behaviour.run.value) THEN behaviour.run
    ELSE Return(WrappedResult(behaviour.run.value))

\* mutant: the class is instantiated before the try block
LegacyModuleWrapperRunOpenInit(wrapper, classes) ==
    LET behaviour == classes[wrapper.module_class]
        attempt == LegacyTry(behaviour)
    IN  IF behaviour.init.raised THEN behaviour.init
        ELSE IF attempt.raised THEN Return(FailedResult(attempt.message))
        ELSE attempt

\* LegacyModuleWrapper.run: the try block, and the except branch for what it raises
LegacyModuleWrapperRun(wrapper, classes) ==
    LET attempt == LegacyTry(classes[wrapper.module_class]) IN
    IF attempt.raised THEN Return(FailedResult(attempt.message)) ELSE attempt

\* mappings a legacy run may return: any of the keys ok, changed and error, present or not
LegacyDicts ==
    UNION {{PyDict(items) : items \in [K -> BOOLEAN]} : K \in SUBSET {"ok", "changed"}}
        \cup {PyDict([ok |-> FALSE, error |-> "module error"])}

\* what a legacy class may do: fail to instantiate, raise from run, or return a value
Behaviours ==
    {[init |-> Raise("init failed"), run |-> Return(PyNone)]} \cup
    {[init |-> Return(PyNone), run |-> out] :
        out \in {Raise("run failed")} \cup
                {Return(v) : v \in LegacyDicts \cup {PyNone, PyOther("int"), PyOther("str")}}}

\* a wrapper is run: the call and what it returns or raises
legacy_run ==
    \E module_class \in CustomClasses :
        /\ last_call' = Call("run", module_class,
                             LegacyModuleWrapperRun(LegacyModuleWrapper("custom", module_class),
                                                    environment.classes))
        /\ prev_call' = last_call
        /\ UNCHANGED <<plugin_registry, initialized, environment, execVars, undoVars>>

\* an entry point of the group marku.plugins: its name and whether it loads
EntryPoint(name, loads) == [name |-> name, loads |-> loads]

\* what the installation offers
Environments ==
    {[entry_points |-> eps, registry_imports |-> b] :
        eps \in {<<>>, <<EntryPoint("alpha", TRUE)>>,
                 <<EntryPoint("alpha", TRUE), EntryPoint("beta", FALSE)>>},
        b \in BOOLEAN}

\* the registry as the import of plugins.py leaves it (plugins.py:15, 230)
InitPlugins(env) ==
    /\ plugin_registry = NewPluginRegistry
    /\ initialized = FALSE
    /\ environment = env
    /\ last_call = Call("", "", TRUE)
    /\ prev_call = Call("", "", TRUE)

(***************************************************************************)
(* The git repository of GitUndoManager (undo_git.py).  A tree gives each  *)
(* file its content, 0 for a file that is absent; the history is linear,   *)
(* a commit's id is its position and its parent the commit before it.      *)
(***************************************************************************)
GitIgnore == ".gitignore"
MdFiles == {"a.md", "b.md"}
AllFiles == MdFiles \cup {GitIgnore}

\* a commit; tagged says that its message starts with "[marku]"
Commit(tagged, summary, tree) == [tagged |-> tagged, summary |-> summary, tree |-> tree]

HeadCommit(cs) == cs[Len(cs)]

\* Repo.is_dirty(index=True): staged changes, or tracked files changed in the working tree
RepoIsDirty(cs, staged, wt) ==
    \/ staged # HeadCommit(cs).tree
    \/ \E f \in AllFiles : staged[f] # 0 /\ wt[f] # staged[f]

\* mutant: the commit replaces HEAD instead of following it
SaveStateAmending(cs, wt, message) ==
    IF ~RepoIsDirty(cs, wt, wt)
    THEN [sha |-> <<>>, commits |-> cs, index |-> wt]
    ELSE [sha |-> <<Len(cs)>>,
          commits |-> Append(SubSeq(cs, 1, Len(cs) - 1), Commit(TRUE, message, wt)),
          index |-> wt]

\* GitUndoManager.save_state (undo_git.py:43-61): git add -A, then a tagged commit if
\* anything is staged; sha is <<>> for None
SaveState(cs, wt, message) ==
    IF ~RepoIsDirty(cs, wt, wt)
    THEN [sha |-> <<>>, commits |-> cs, index |-> wt]
    ELSE [sha |-> <<Len(cs) + 1>>, commits |-> Append(cs, Commit(TRUE, message, wt)),
          index |-> wt]

\* git checkout <tree-ish> -- . : every file of the tree is written to the index and
\* the working tree, files the tree does not have are left alone; an error when the
\* tree has no file
CheckoutPaths(tree, staged, wt) ==
    IF \A f \in AllFiles : tree[f] = 0
    THEN [raised |-> TRUE, index |-> staged, worktree |-> wt]
    ELSE [raised |-> FALSE,
          index |-> [f \in AllFiles |-> IF tree[f] # 0 THEN tree[f] ELSE staged[f]],
          worktree |-> [f \in AllFiles |-> IF tree[f] # 0 THEN tree[f] ELSE wt[f]]]

\* the commits iter_commits(max_count=n) yields, newest first, as ids
IterCommits(cs, n) ==
    [k \in 1..(IF Len(cs) < n THEN Len(cs) ELSE n) |-> Len(cs) + 1 - k]

\* the first tagged commit of a listing, 0 when it has none (undo_git.py:67-74)
RECURSIVE FirstTagged(_, _, _)
FirstTagged(cs, listing, k) ==
    IF k > Len(listing) THEN 0
    ELSE IF cs[listing[k]].tagged THEN listing[k]
    ELSE FirstTagged(cs, listing, k + 1)

\* a checkout followed by save_state(message): the state after both
CheckoutAndSave(cs, staged, wt, tree, message) ==
    LET co == CheckoutPaths(tree, staged, wt) IN
    IF co.raised
    THEN [ret |-> FALSE, commits |-> cs, index |-> staged, worktree |-> wt]
    ELSE LET saved == SaveState(cs, co.worktree, message) IN
         [ret |-> TRUE, commits |-> saved.commits, index |-> saved.index,
          worktree |-> co.worktree]

\* GitUndoManager.undo_latest (undo_git.py:63-91)
UndoLatest(cs, staged, wt) ==
    LET last_marku_commit == FirstTagged(cs, IterCommits(cs, UndoSearchDepth), 1) IN
    IF last_marku_commit = 0 \/ Len(cs) < 2
    THEN [ret |-> FALSE, commits |-> cs, index |-> staged, worktree |-> wt]
    ELSE CheckoutAndSave(cs, staged, wt, cs[Len(cs) - 1].tree,
                         <<"Undo operation">> \o cs[last_marku_commit].summary)

\* GitUndoManager.revert_to (undo_git.py:110-119); hexsha 0 names no commit
RevertTo(cs, staged, wt, hexsha) ==
    IF hexsha \notin DOMAIN cs
    THEN [ret |-> FALSE, commits |-> cs, index |-> staged, worktree |-> wt]
    ELSE CheckoutAndSave(cs, staged, wt, cs[hexsha].tree, <<"Revert to", ToString(hexsha)>>)

\* an operation on the repository is logged with what it returned
Logged(op, ret) ==
    /\ Len(undo_log) < MaxOps
    /\ undo_log' = Append(undo_log, [op |-> op, ret |-> ret, worktree |-> worktree'])
    /\ UNCHANGED <<execVars, regVars>>

\* a file of the working tree is written, created or deleted
Mutate ==
    \E f \in MdFiles, b \in 0..MaxBytes :
        /\ b # worktree[f]
        /\ worktree' = [worktree EXCEPT ![f] = b]
        /\ UNCHANGED <<commits, index>>
        /\ Logged("mutate", TRUE)

\* the user commits the working tree (git add -A, git commit) under an untagged message
UserCommit ==
    /\ RepoIsDirty(commits, worktree, worktree)
    /\ commits' = Append(commits, Commit(FALSE, <<"user">>, worktree))
    /\ index' = worktree
    /\ UNCHANGED worktree
    /\ Logged("commit", TRUE)

save_state ==
    LET saved == SaveState(commits, worktree, <<"m">>) IN
    /\ commits' = saved.commits
    /\ index' = saved.index
    /\ UNCHANGED worktree
    /\ Logged("save_state", saved.sha # <<>>)

undo_latest ==
    LET out == UndoLatest(commits, index, worktree) IN
    /\ commits' = out.commits
    /\ index' = out.index
    /\ worktree' = out.worktree
    /\ Logged("undo_latest", out.ret)

revert_to ==
    \E hexsha \in 0..Len(commits) :
        LET out == RevertTo(commits, index, worktree, hexsha) IN
        /\ commits' = out.commits
        /\ index' = out.index
        /\ worktree' = out.worktree
        /\ Logged("revert_to", out.ret)

\* GitUndoManager.get_history (undo_git.py:93-108): the listing of the limit * 2 most
\* recent commits is walked, tagged commits are collected until there are limit of them
RECURSIVE HistoryLoop(_, _, _, _, _)
HistoryLoop(cs, listing, k, limit, history) ==
    IF k > Len(listing) THEN history
    ELSE LET c == cs[listing[k]]
             h == IF c.tagged
                  THEN Append(history, [id |-> listing[k], summary |-> c.summary])
                  ELSE history
         IN  IF Len(h) >= limit THEN h ELSE HistoryLoop(cs, listing, k + 1, limit, h)

GetHistory(cs, limit) == HistoryLoop(cs, IterCommits(cs, limit * 2), 1, limit, <<>>)

get_history ==
    \E limit \in 1..MaxLimit :
        /\ UNCHANGED <<commits, index, worktree>>
        /\ Logged("get_history", [limit |-> limit, history |-> GetHistory(commits, limit)])

\* GitUndoManager.is_dirty (undo_git.py:39-41): is_dirty(untracked_files=True)
IsDirty(cs, staged, wt) ==
    \/ RepoIsDirty(cs, staged, wt)
    \/ \E f \in AllFiles : staged[f] = 0 /\ wt[f] # 0

\* what mod.run may leave of the working tree: nothing changed, or one markdown file
\* that exists rewritten
ModuleRuns(wt) ==
    {wt} \cup {[wt EXCEPT ![f] = b] : f \in {g \in MdFiles : wt[g] # 0},
                                      b \in 1..MaxBytes}

\* the run command with undo enabled and no dry run (cli.py:138-191): an auto-save when the
\* tree is dirty, the module, then save_state for the module's changes
cli_run ==
    \E wt \in ModuleRuns(worktree) :
        LET before == IF IsDirty(commits, index, worktree)
                      THEN SaveState(commits, worktree, <<"Auto-save before module run">>)
                      ELSE [sha |-> <<>>, commits |-> commits, index |-> index]
            after == SaveState(before.commits, wt, <<"run module">>)
        IN  /\ commits' = after.commits
            /\ index' = after.index
            /\ worktree' = wt
            /\ Logged("run", [before |-> worktree, changed |-> wt # worktree])

\* the commit GitUndoManager makes in a directory that is no repository
\* (undo_git.py:30-36)
SetupCommit ==
    Commit(FALSE, <<"Initial commit (marku setup)">>,
           [f \in AllFiles |-> IF f = GitIgnore THEN 1 ELSE 0])

\* a repository with the given history and working tree, nothing staged
InitRepo(cs, wt) ==
    /\ commits = cs
    /\ index = HeadCommit(cs).tree
    /\ worktree = wt
    /\ undo_log = <<>>

(***************************************************************************)
(* Pipelines the runs start from.                                          *)
(***************************************************************************)
\* names of the declared steps, in declaration order
StepNames == <<"A", "B", "C">>
\* names a depends list may hold: the steps and a name no step has
DepNames == Range(StepNames) \cup {"Z"}
\* input paths: a step's own and the global one
OwnInput == "p1"
GlobalInput == "p2"
Paths == {OwnInput, GlobalInput}
\* the path a step gives under the alias key "path" instead of "input"
AliasInput == "p3"

StepDecl(name, enabled, mc, input, opts, order, depends, skip) ==
    [name |-> name, enabled |-> enabled, module |-> mc[1], clazz |-> mc[2],
     config |-> [input |-> input, path |-> "", opts |-> opts],
     order |-> order, depends |-> depends, skip_on_error |-> skip]

Pipeline(pipeline_enable, sequence, steps, global_input) ==
    [enable |-> pipeline_enable, sequence |-> sequence, steps |-> steps, global_input |-> global_input]

\* a fresh executor over the loaded description t
InitRun(t, dry, rp, fs) ==
    /\ toml = t
    /\ config = t
    /\ dry_run = dry
    /\ report_path = rp
    /\ files = fs
    /\ files0 = fs
    /\ shared = EmptyDict
    /\ pc = "start"
    /\ ordered_steps = <<>>
    /\ idx = 0
    /\ step_reports = <<>>
    /\ report = <<>>
    /\ invoked = <<>>
    /\ run_no = 1
    /\ past_runs = <<>>

\* no pipeline is run
NoRun == InitRun(Pipeline(FALSE, <<>>, <<>>, ""), FALSE, FALSE, [p \in Paths |-> 0])
\* the registry is left as imported, nothing is installed
NoPlugins == InitPlugins([entry_points |-> <<>>, registry_imports |-> TRUE])
\* the repository holds its first commit
NoRepo == InitRepo(<<SetupCommit>>, SetupCommit.tree)

\* lists without repetition over S of length at most n
RECURSIVE Hints(_, _)
Hints(S, n) ==
    IF n = 0 THEN {<<>>}
    ELSE LET shorter == Hints(S, n - 1) IN
         shorter \cup {Append(h, x) : h \in {g \in shorter : Len(g) = n - 1},
                                      x \in S}

InjectiveHints(S, n) == {h \in Hints(S, n) : \A i, j \in DOMAIN h : h[i] = h[j] => i = j}

DependsChoices == {D \in SUBSET DepNames : Cardinality(D) <= MaxDeps}
OrderChoices == {<<>>, <<10>>, <<20>>, <<30>>, <<20000>>}
ContentReplace == <<"content_replace", "">>

\* the resolver's inputs: any depends lists and either no hint and any orders, or a hint
\* and orders that are all absent, or run with or against the declaration order
InitResolve ==
    /\ NoPlugins
    /\ NoRepo
    /\ \E dep \in [DOMAIN StepNames -> DependsChoices] :
       \E seq \in InjectiveHints(Range(StepNames), MaxHint) :
       \E ord \in IF seq = <<>> THEN [DOMAIN StepNames -> OrderChoices]
                  ELSE {[i \in DOMAIN StepNames |-> <<>>],
                        [i \in DOMAIN StepNames |-> <<10 * i>>],
                        [i \in DOMAIN StepNames |-> <<10 * (Len(StepNames) + 1 - i)>>]} :
           InitRun(Pipeline(TRUE, seq,
                            [i \in DOMAIN StepNames |->
                                StepDecl(StepNames[i], TRUE, ContentReplace, OwnInput, "valid",
                                         ord[i], dep[i], TRUE)],
                            ""),
                   FALSE, TRUE, [p \in Paths |-> 1])

\* what a step may name as its module and class, with the options of its config
NoSuchModule == <<"no_such_module", "">>
HeaderAdapter == <<"marku.scripts.consecutive_header_adapter", "ConsecutiveHeaderRunner">>
DedupAdapter == <<"marku.scripts.content_dedup_adapter", "">>
ModuleChoices ==
    {<<ContentReplace, "valid">>, <<ContentReplace, "invalid">>, <<HeaderAdapter, "valid">>,
     <<DedupAdapter, "valid">>, <<NoSuchModule, "valid">>}

\* the declarations of one step of the executor's pipelines: disabled, or enabled with any
\* module, input and skip_on_error
ExecDecls(name) ==
    {StepDecl(name, FALSE, ContentReplace, OwnInput, "valid", <<>>, {}, TRUE)} \cup
    {StepDecl(name, TRUE, mo[1], input, mo[2], <<>>, {}, skip) :
        mo \in ModuleChoices, input \in {"", OwnInput}, skip \in BOOLEAN}

\* the executor's inputs: any three such steps, run in declaration order or by a hint,
\* with or without a global input and a report
InitExec ==
    /\ NoPlugins
    /\ NoRepo
    /\ \E a \in ExecDecls(StepNames[1]), b \in ExecDecls(StepNames[2]), c \in ExecDecls(StepNames[3]) :
       \E seq \in {<<>>, <<"C", "A">>}, gi \in {"", GlobalInput}, rp \in BOOLEAN, en \in BOOLEAN :
           /\ (~en => rp /\ seq = <<>>)
           /\ InitRun(Pipeline(en, seq, <<a, b, c>>, gi), FALSE, rp, [p \in Paths |-> MaxText])

\* the dry-run inputs: enabled steps over registry modules and script adapters, any texts
DryDecls(name) ==
    {StepDecl(name, TRUE, mc, input, "valid", <<>>, {}, TRUE) :
        mc \in {ContentReplace, HeaderAdapter, DedupAdapter}, input \in {"", OwnInput}}

InitDry ==
    /\ NoPlugins
    /\ NoRepo
    /\ \E a \in DryDecls(StepNames[1]), b \in DryDecls(StepNames[2]), c \in DryDecls(StepNames[3]) :
       \E dry \in BOOLEAN, fs \in [Paths -> 0..MaxText] :
           InitRun(Pipeline(TRUE, <<>>, <<a, b, c>>, GlobalInput), dry, TRUE, fs)

\* a declaration that also gives a path under the alias key
WithAlias(decl, path) == [decl EXCEPT !.config.path = path]

\* the declarations of one step by where its input comes from: disabled, or enabled with
\* or without input, with or without the alias, succeeding, failing, or failing and halting
InputDecls(name) ==
    {WithAlias(StepDecl(name, how[1], ContentReplace, input, how[2], <<>>, {}, how[3]), path) :
        how \in {<<FALSE, "valid", TRUE>>, <<TRUE, "valid", TRUE>>,
                 <<TRUE, "invalid", TRUE>>, <<TRUE, "invalid", FALSE>>},
        input \in {"", OwnInput}, path \in {"", AliasInput}}

\* the inputs of the input rule: any three such steps, with or without a global input
InitInput ==
    /\ NoPlugins
    /\ NoRepo
    /\ \E a \in InputDecls(StepNames[1]), b \in InputDecls(StepNames[2]), c \in InputDecls(StepNames[3]) :
       \E seq \in {<<>>, <<"C", "A">>}, gi \in {"", GlobalInput} :
           InitRun(Pipeline(TRUE, seq, <<a, b, c>>, gi), FALSE, TRUE,
                   [p \in Paths \cup {AliasInput} |-> MaxText])

\* payloads left in context.shared before a step reads back: the empty mapping and two
\* non-empty ones
ModulePayload == [kind |-> "module", changed |-> 1, diffs |-> <<>>, details |-> <<>>]
NamePayload == [kind |-> "name", changed |-> 0, diffs |-> <<>>, details |-> <<>>]
Payloads == {EmptyData, ModulePayload, NamePayload}

\* contents of context.shared under the keys a step may read back
SharedChoices ==
    UNION {[K -> Payloads] : K \in SUBSET {ContentReplace[1], StepNames[1], StepNames[2]}}

\* the declarations of one step by what its run leaves in context.shared: the module's
\* own entry, an entry under another key, or nothing because it raises
PayloadDecls(name) ==
    {StepDecl(name, TRUE, mo[1], OwnInput, mo[2], <<>>, {}, TRUE) :
        mo \in {<<ContentReplace, "valid">>, <<ContentReplace, "invalid">>,
                 <<HeaderAdapter, "valid">>}}

\* the inputs of the read-back: any context.shared, then any three such steps
InitPayload ==
    /\ NoPlugins
    /\ NoRepo
    /\ \E a \in PayloadDecls(StepNames[1]), b \in PayloadDecls(StepNames[2]), c \in PayloadDecls(StepNames[3]) :
       \E sh \in SharedChoices :
           /\ toml = Pipeline(TRUE, <<>>, <<a, b, c>>, "")
           /\ config = toml
           /\ dry_run = FALSE
           /\ report_path = TRUE
           /\ files = [p \in Paths |-> MaxText]
           /\ files0 = files
           /\ shared = sh
           /\ pc = "start"
           /\ ordered_steps = <<>>
           /\ idx = 0
           /\ step_reports = <<>>
           /\ report = <<>>
           /\ invoked = <<>>
           /\ run_no = 1
           /\ past_runs = <<>>

\* histories of tagged and untagged commits in any interleaving, each commit changing
\* a.md, after the first commit
RECURSIVE Histories(_)
Histories(n) ==
    IF n = 0 THEN {<<SetupCommit>>}
    ELSE LET shorter == Histories(n - 1) IN
         shorter \cup
         {Append(cs, Commit(tagged, IF tagged THEN <<"m">> ELSE <<"user">>,
                            [SetupCommit.tree EXCEPT !["a.md"] = Len(cs) % 2])) :
             cs \in {h \in shorter : Len(h) = n}, tagged \in BOOLEAN}

InitHistory ==
    /\ NoRun
    /\ NoPlugins
    /\ \E cs \in Histories(MaxCommits) : InitRepo(cs, HeadCommit(cs).tree)

\* the resolver's inputs when names may repeat: any names and depends lists, with or
\* without a hint
InitNames ==
    /\ NoPlugins
    /\ NoRepo
    /\ \E name \in [DOMAIN StepNames -> Range(StepNames)] :
       \E dep \in [DOMAIN StepNames -> SUBSET {StepNames[1], StepNames[2]}] :
       \E seq \in {<<>>, <<"B", "A">>} :
           InitRun(Pipeline(TRUE, seq,
                            [i \in DOMAIN StepNames |->
                                StepDecl(name[i], TRUE, ContentReplace, OwnInput, "valid",
                                         <<>>, dep[i], TRUE)],
                            ""),
                   FALSE, TRUE, [p \in Paths |-> 1])

vars == <<execVars, regVars, undoVars>>

Next == RunStart \/ RunStep \/ RunFinish

NextRepeated == Next \/ RunAgain

\* one run of the executor over any pipeline
Spec == InitExec /\ [][Next]_vars

\* one run over the resolver's inputs
SpecResolve == InitResolve /\ [][Next]_vars

\* runs of the same pipeline, one after the other, over the same files
SpecDry == InitDry /\ [][NextRepeated]_vars

\* one run over the inputs of the input rule
SpecInput == InitInput /\ [][Next]_vars

\* one run over the resolver's inputs with names that may repeat
SpecNames == InitNames /\ [][Next]_vars

\* one run over the inputs of the read-back
SpecPayload == InitPayload /\ [][Next]_vars

\* any two legacy classes, then any runs of their wrappers
InitWrapper ==
    /\ NoRun
    /\ NoRepo
    /\ plugin_registry = NewPluginRegistry
    /\ initialized = FALSE
    /\ \E classes \in [CustomClasses -> Behaviours] :
          environment = [entry_points |-> <<>>, registry_imports |-> TRUE, classes |-> classes]
    /\ last_call = Call("", "", TRUE)
    /\ prev_call = Call("", "", TRUE)

SpecWrapper == InitWrapper /\ [][legacy_run]_vars

\* any history, then any history queries
SpecHistory == InitHistory /\ [][get_history]_vars

\* the declarations of one step by its module: a core module or one nothing provides
RegistryDecls(name) ==
    {StepDecl(name, TRUE, mc, OwnInput, "valid", <<>>, {}, TRUE) :
        mc \in {ContentReplace, NoSuchModule}}

\* any installation and any pipeline of such steps
InitDisabled ==
    /\ NoRepo
    /\ \E env \in Environments : InitPlugins(env)
    /\ \E a \in RegistryDecls(StepNames[1]), b \in RegistryDecls(StepNames[2]), c \in RegistryDecls(StepNames[3]) :
          InitRun(Pipeline(TRUE, <<>>, <<a, b, c>>, ""), FALSE, TRUE, [p \in Paths |-> MaxText])

\* the plugin system is initialised, plugins are disabled and enabled, and the pipeline runs
NextDisabled == initialize_plugins \/ disable \/ enable \/ RunStart \/ RunStep \/ RunFinish

SpecDisabled == InitDisabled /\ [][NextDisabled]_vars

\* any installation, then any calls on the plugin registry
InitRegistry ==
    /\ NoRun
    /\ NoRepo
    /\ \E env \in Environments : InitPlugins(env)

NextRegistry ==
    register_legacy_module \/ discover_plugins \/ initialize_plugins \/ disable \/ enable

SpecRegistry == InitRegistry /\ [][NextRegistry]_vars

\* a repository GitUndoManager has set up or the user had, the working tree clean or
\* with a.md created or deleted, then any operations on it
InitUndo ==
    /\ NoRun
    /\ NoPlugins
    /\ \E cs \in {<<SetupCommit>>,
                  <<SetupCommit,
                    Commit(FALSE, <<"user">>, [SetupCommit.tree EXCEPT !["a.md"] = 1])>>,
                  <<SetupCommit,
                    Commit(TRUE, <<"m">>, [SetupCommit.tree EXCEPT !["a.md"] = 1]),
                    Commit(FALSE, <<"user">>, [SetupCommit.tree EXCEPT !["a.md"] = 2])>>} :
       \E clean \in BOOLEAN :
           InitRepo(cs, IF clean THEN HeadCommit(cs).tree
                        ELSE [HeadCommit(cs).tree EXCEPT !["a.md"] = IF @ = 0 THEN 1 ELSE 0])

NextUndo == Mutate \/ UserCommit \/ save_state \/ undo_latest \/ revert_to

SpecUndo == InitUndo /\ [][NextUndo]_vars

\* the run and undo commands of the command line, over the repositories of InitUndo
NextCli == cli_run \/ undo_latest

SpecCli == InitUndo /\ [][NextCli]_vars

(***************************************************************************)
(* The dependency relation of a pipeline, stated apart from the resolver.  *)
(***************************************************************************)
\* <<i, j>>: step i names step j in its depends
DependsOn(steps) ==
    {p \in (DOMAIN steps) \X (DOMAIN steps) : steps[p[2]].name \in steps[p[1]].depends}

RECURSIVE Closure(_, _)
Closure(R, n) ==
    IF n = 0 THEN R
    ELSE Closure(R \cup {<<x[1][1], x[2][2]>> : x \in {y \in R \X R : y[1][2] = y[2][1]}}, n - 1)

\* <<i, j>>: a chain of depends leads from step i to step j
DependsPath(steps) == Closure(DependsOn(steps), Len(steps))

HasCycle(steps) == \E i \in DOMAIN steps : <<i, i>> \in DependsPath(steps)

UniqueNames(steps) == \A i, j \in DOMAIN steps : steps[i].name = steps[j].name => i = j

\* position of step i in the resolved order
Position(i) == CHOOSE k \in DOMAIN ordered_steps : ordered_steps[k] = i

\* run() has a resolved order in hand
Resolved == pc \in {"loop", "break", "done"} /\ config.enable

(***************************************************************************)
(* C1: for uniquely named steps with an acyclic depends graph and any      *)
(* sequence hint, _resolve_order returns an order in which each step comes *)
(* strictly after every in-pipeline step named in its depends.             *)
(***************************************************************************)
C1_DependenciesRespected ==
    (pc # "start" /\ toml.enable /\ UniqueNames(toml.steps) /\ ~HasCycle(toml.steps)) =>
        /\ pc # "raised"
        /\ \A p \in DependsOn(toml.steps) : Position(p[2]) < Position(p[1])

(***************************************************************************)
(* C2: for uniquely named steps whose depends graph has a cycle (a step    *)
(* that depends on itself included) _resolve_order raises and returns no   *)
(* list, and run() invokes no step.                                        *)
(***************************************************************************)
C2_CycleRaises ==
    (toml.enable /\ (pc \notin {"start", "raised"} \/ ordered_steps # <<>> \/ invoked # <<>>)) =>
        ~(UniqueNames(toml.steps) /\ HasCycle(toml.steps))

C2_Witness ==
    /\ pc = "raised"
    /\ \E i \in DOMAIN toml.steps : toml.steps[i].name \in toml.steps[i].depends
    /\ \E i \in DOMAIN toml.steps : <<i, i>> \notin DependsPath(toml.steps)

(***************************************************************************)
(* C3: two steps that the sequence hint both names and that no chain of    *)
(* depends connects come out in the hint's order, whatever their           *)
(* declaration positions and order values.                                 *)
(***************************************************************************)
HintIndex(n) == CHOOSE k \in DOMAIN toml.sequence : toml.sequence[k] = n

HintOrdersPair(a, b, paths) ==
    /\ toml.steps[a].name \in Range(toml.sequence)
    /\ toml.steps[b].name \in Range(toml.sequence)
    /\ <<a, b>> \notin paths
    /\ <<b, a>> \notin paths
    /\ HintIndex(toml.steps[a].name) < HintIndex(toml.steps[b].name)

C3_HintOrdersIndependentSteps ==
    (Resolved /\ toml.sequence # <<>>) =>
        LET paths == DependsPath(toml.steps) IN
        \A a, b \in DOMAIN toml.steps :
            HintOrdersPair(a, b, paths) => Position(a) < Position(b)

\* a hinted pair declared in the opposite order, with order values against the hint, and
\* the later-hinted one ready before the other
C3_Witness ==
    /\ Resolved
    /\ toml.sequence # <<>>
    /\ \E a, b \in DOMAIN toml.steps :
          /\ HintOrdersPair(a, b, DependsPath(toml.steps))
          /\ b < a
          /\ toml.steps[a].order # <<>> /\ toml.steps[b].order # <<>>
          /\ toml.steps[b].order[1] < toml.steps[a].order[1]
          /\ toml.steps[a].depends # {} /\ toml.steps[b].depends = {}
          /\ Position(a) < Position(b)

(***************************************************************************)
(* C4: with no sequence hint each selection of Kahn's loop emits the ready *)
(* step with the smallest declared order, no order ranking as 10000 and    *)
(* equal ranks broken by declaration index; for A(order=20), B(order=10),  *)
(* C(depends=[B], order=30) the resolved order is exactly [B, A, C].       *)
(***************************************************************************)
Rank(i) == <<IF toml.steps[i].order = <<>> THEN 10000 ELSE toml.steps[i].order[1], i>>

\* the steps ready for the k-th selection: not yet emitted, every in-pipeline depends emitted
ReadyAt(k) ==
    LET emitted == {ordered_steps[j] : j \in 1..(k - 1)} IN
    {i \in DOMAIN toml.steps \ emitted :
        \A j \in DOMAIN toml.steps :
            toml.steps[j].name \in toml.steps[i].depends => j \in emitted}

ScenarioSteps ==
    <<StepDecl("A", TRUE, ContentReplace, OwnInput, "valid", <<20>>, {}, TRUE),
      StepDecl("B", TRUE, ContentReplace, OwnInput, "valid", <<10>>, {}, TRUE),
      StepDecl("C", TRUE, ContentReplace, OwnInput, "valid", <<30>>, {"B"}, TRUE)>>

C4_SmallestOrderFirst ==
    (Resolved /\ toml.sequence = <<>>) =>
        /\ \A k \in DOMAIN ordered_steps :
              LET ready == ReadyAt(k) IN
              /\ ordered_steps[k] \in ready
              /\ \A i \in ready \ {ordered_steps[k]} :
                    TupleLess(Rank(ordered_steps[k]), Rank(i))
        /\ toml.steps = ScenarioSteps => ordered_steps = <<2, 1, 3>>

C4_Witness ==
    /\ Resolved
    /\ toml.sequence = <<>>
    /\ toml.steps = ScenarioSteps
    /\ ordered_steps = <<2, 1, 3>>

\* a step without an order is preferred to one ordered above 10000 and yields to one below
C4_WitnessNoOrder ==
    /\ Resolved
    /\ toml.sequence = <<>>
    /\ \E i, j, k \in DOMAIN toml.steps :
          /\ toml.steps[i].order = <<>>
          /\ toml.steps[j].order = <<20000>>
          /\ toml.steps[k].order = <<10>>
          /\ Position(k) < Position(i) /\ Position(i) < Position(j)

(***************************************************************************)
(* What the declarations say of a step, stated apart from the executor.    *)
(***************************************************************************)
\* the step is enabled and has an effective input
Runnable(i) ==
    /\ toml.steps[i].enabled
    /\ toml.steps[i].config.input # "" \/ toml.global_input # ""

\* the step names a module that cannot be resolved
Unresolvable(i) == toml.steps[i].module = NoSuchModule[1]

\* the step's module can be resolved and raises when it is invoked
Raising(i) == ~Unresolvable(i) /\ toml.steps[i].config.opts = "invalid"

\* the step's module can be resolved and returns when it is invoked
Sound(i) == ~Unresolvable(i) /\ toml.steps[i].config.opts = "valid"

WasInvoked(i) == i \in Range(invoked)

\* the report entries of step i
EntriesOf(i) == {k \in DOMAIN step_reports : step_reports[k].name = toml.steps[i].name}

(***************************************************************************)
(* C5: if one enabled step names a module that cannot be resolved, then    *)
(* for either value of its skip_on_error the run report has an entry for   *)
(* it with a non-null error, and every other enabled step with an          *)
(* effective input is still invoked and gets its own report entry.  (The   *)
(* other steps are taken to be sound, so that nothing else ends the run.)  *)
(***************************************************************************)
C5_UnresolvedModuleIsolated ==
    (pc = "done" /\ toml.enable) =>
        \A u \in DOMAIN toml.steps :
            (/\ Runnable(u)
             /\ Unresolvable(u)
             /\ \A v \in DOMAIN toml.steps \ {u} : Sound(v)) =>
                /\ \E k \in EntriesOf(u) : step_reports[k].error # <<>>
                /\ \A v \in DOMAIN toml.steps \ {u} :
                      Runnable(v) => WasInvoked(v) /\ EntriesOf(v) # {}

(***************************************************************************)
(* C6: when a step's module invocation raises, with skip_on_error true the *)
(* executor records the error and goes on to the next steps of the         *)
(* resolved order; with skip_on_error false no later step of the resolved  *)
(* order is ever invoked in that run.                                      *)
(***************************************************************************)
\* a step that ends the run when its turn comes
Halting(i) ==
    Runnable(i) /\ (Unresolvable(i) \/ Raising(i)) /\ ~toml.steps[i].skip_on_error

C6_SkipOnErrorGatesRun ==
    toml.enable =>
        \A k \in DOMAIN ordered_steps :
            LET i == ordered_steps[k] IN
            (WasInvoked(i) /\ Raising(i)) =>
                IF toml.steps[i].skip_on_error
                THEN /\ \E e \in EntriesOf(i) : step_reports[e].error # <<>>
                     /\ pc = "done" =>
                           \A j \in (k + 1)..Len(ordered_steps) :
                               LET n == ordered_steps[j] IN
                               (/\ Runnable(n)
                                /\ ~Unresolvable(n)
                                /\ \A m \in 1..(j - 1) : ~Halting(ordered_steps[m])) =>
                                   WasInvoked(n)
                ELSE \A j \in (k + 1)..Len(ordered_steps) : ~WasInvoked(ordered_steps[j])

\* one run shows both: a step raises and is skipped over, the next raises and ends the run
C6_Witness ==
    /\ pc = "done"
    /\ Len(ordered_steps) = 3
    /\ LET a == ordered_steps[1]
           b == ordered_steps[2]
           c == ordered_steps[3]
       IN  /\ Raising(a) /\ toml.steps[a].skip_on_error
           /\ Raising(b) /\ ~toml.steps[b].skip_on_error
           /\ Runnable(c) /\ Sound(c)
           /\ invoked = <<a, b>>
           /\ a > b

(***************************************************************************)
(* C7: in a run with dry_run set, whatever modules the steps name, the     *)
(* content of every file under the input paths stays what it was when the  *)
(* run started, and each file whose computed new text differs from its     *)
(* original has a diff entry recorded for its path.                        *)
(***************************************************************************)
\* the text the step's module computes from a text
NewText(step, text) ==
    IF step.module = ContentReplace[1] THEN ApplyPatterns(text)
    ELSE IF step.module = HeaderAdapter[1] THEN ProcessLines(text)
    ELSE DeduplicateTitles(text)

\* the path the step works on
InputOf(step) == IF step.config.input # "" THEN step.config.input ELSE toml.global_input

C7_DryRunWritesNothing ==
    (dry_run /\ toml.enable) =>
        /\ files = files0
        /\ \A k \in DOMAIN step_reports :
              LET step == toml.steps[CHOOSE i \in DOMAIN toml.steps :
                                        toml.steps[i].name = step_reports[k].name]
                  f == InputOf(step)
              IN  NewText(step, files0[f]) # files0[f] =>
                      \E d \in Range(step_reports[k].data.diffs) : d.file = f

(***************************************************************************)
(* C8: running the same pipeline twice in dry-run mode over the same files *)
(* yields identical diffs for every step both times; the second run sees   *)
(* exactly the inputs the first run saw.                                   *)
(***************************************************************************)
DiffsOf(reports) == [k \in DOMAIN reports |-> <<reports[k].name, reports[k].data.diffs>>]

C8_DryRunsRepeat ==
    (dry_run /\ run_no > 1 /\ pc = "done") =>
        /\ files0 = past_runs[Len(past_runs)].files0
        /\ DiffsOf(step_reports) = DiffsOf(past_runs[Len(past_runs)].reports)


(***************************************************************************)
(* What a call on the registry must leave alone: the discovery metadata.   *)
(***************************************************************************)
DiscoveryMetadata(r) == <<r.discovered_plugins, r.legacy_registry, r.origins>>

\* the step is the call op(name) for some name
IsCall(op) == last_call'.op = op

(***************************************************************************)
(* C9: for every discovered module name, disable(name) followed by         *)
(* enable(name) puts the module back in the live dispatch table            *)
(* (has_plugin(name) is true again) with no discovery in between, and      *)
(* neither call changes the origins, the discovered plugins or the legacy  *)
(* registry of any name.                                                   *)
(***************************************************************************)
C9_DisableEnableRoundTrip ==
    [][/\ (IsCall("enable") \/ IsCall("disable")) =>
             DiscoveryMetadata(plugin_registry') = DiscoveryMetadata(plugin_registry)
       /\ (/\ IsCall("enable")
           /\ last_call.op = "disable"
           /\ last_call.name = last_call'.name
           /\ last_call.name \in DOMAIN plugin_registry.discovered_plugins) =>
             (HasPlugin(plugin_registry', last_call.name) /\ last_call'.ret)]_vars

\* an entry point's plugin was disabled and enabled again
C9_Witness ==
    /\ prev_call = Call("disable", "alpha", TRUE)
    /\ last_call = Call("enable", "alpha", TRUE)
    /\ "alpha" \in DOMAIN plugin_registry.discovered_plugins
    /\ plugin_registry.origins["alpha"] = "entry_point"
    /\ HasPlugin(plugin_registry, "alpha")

(***************************************************************************)
(* C10: save_state, then a mutation of the working tree (files modified,   *)
(* created or deleted), then save_state, then undo_latest leave the        *)
(* working tree with exactly the files and contents it had at the first    *)
(* save_state.                                                             *)
(***************************************************************************)
\* the log ends with save_state at i, mutations that changed the tree, save_state at j
\* and undo_latest
RoundTrip(i, j) ==
    /\ i + 1 < j
    /\ j + 1 = Len(undo_log)
    /\ undo_log[i].op = "save_state"
    /\ \A k \in (i + 1)..(j - 1) : undo_log[k].op = "mutate"
    /\ undo_log[j].op = "save_state"
    /\ undo_log[j].worktree # undo_log[i].worktree
    /\ undo_log[j + 1].op = "undo_latest"

C10_UndoRoundTrip ==
    \A i, j \in DOMAIN undo_log :
        RoundTrip(i, j) => undo_log[j + 1].worktree = undo_log[i].worktree


(***************************************************************************)
(* What the history says, stated apart from the undo manager.              *)
(***************************************************************************)
\* the step is the operation op on the repository
IsOp(op) ==
    /\ Len(undo_log') = Len(undo_log) + 1
    /\ undo_log'[Len(undo_log')].op = op

\* the id of the most recent tagged commit, 0 when the history has none
MostRecentTagged(cs) ==
    IF \E k \in DOMAIN cs : cs[k].tagged
    THEN CHOOSE k \in DOMAIN cs : cs[k].tagged /\ \A j \in DOMAIN cs : cs[j].tagged => j <= k
    ELSE 0

(***************************************************************************)
(* C11: undo_latest restores the working tree to the content of the parent *)
(* of the most recent tagged commit, whether that commit is HEAD or lies   *)
(* below later untagged commits, and then records the restoration as a new *)
(* tagged commit.                                                          *)
(***************************************************************************)
C11_UndoRestoresParentOfTagged ==
    [][(IsOp("undo_latest") /\ MostRecentTagged(commits) > 1) =>
          /\ worktree' = commits[MostRecentTagged(commits) - 1].tree
          /\ Len(commits') = Len(commits) + 1
          /\ commits'[Len(commits')].tagged
          /\ commits'[Len(commits')].tree = worktree']_vars

(***************************************************************************)
(* C12: after an undo_latest that succeeded and changed files, a second    *)
(* undo_latest restores the working tree to the content it had just before *)
(* the first undo, and both undos are tagged commits of the history.       *)
(***************************************************************************)
\* the log ends with two undo_latest calls, the first one successful and changing files
UndoneTwice ==
    LET n == Len(undo_log) IN
    /\ n >= 3
    /\ undo_log[n - 1].op = "undo_latest"
    /\ undo_log[n - 1].ret
    /\ undo_log[n - 1].worktree # undo_log[n - 2].worktree
    /\ undo_log[n].op = "undo_latest"

IsUndoCommit(c) == c.tagged /\ c.summary[1] = "Undo operation"

C12_UndoOfUndo ==
    UndoneTwice =>
        /\ worktree = undo_log[Len(undo_log) - 2].worktree
        /\ Len(commits) >= 2
        /\ IsUndoCommit(commits[Len(commits)])
        /\ IsUndoCommit(commits[Len(commits) - 1])

(***************************************************************************)
(* C13: the history is append-only: across save_state, undo_latest and     *)
(* revert_to every commit that existed before a call exists after it with  *)
(* the same id, parent and content; the calls only add commits.            *)
(***************************************************************************)
C13_HistoryAppendOnly ==
    [][/\ Len(commits') >= Len(commits)
       /\ \A k \in DOMAIN commits : commits'[k] = commits[k]]_vars

\* save_state, undo_latest and revert_to have each added a commit
C13_Witness ==
    /\ \A op \in {"save_state", "undo_latest", "revert_to"} :
          \E k \in DOMAIN undo_log : undo_log[k].op = op /\ undo_log[k].ret
    /\ \E k \in DOMAIN commits : k > 1 /\ commits[k].summary[1] = "Revert to"
    /\ \E k \in DOMAIN commits : IsUndoCommit(commits[k])

(***************************************************************************)
(* C14: in every run, when a step's module is invoked each in-pipeline     *)
(* step named in its depends has already been invoked and has returned: no *)
(* step begins before all of its depends predecessors have completed.      *)
(***************************************************************************)
C14_DependsCompletedFirst ==
    \A k \in DOMAIN invoked :
        \A p \in DependsOn(toml.steps) :
            p[1] = invoked[k] => \E k2 \in 1..(k - 1) : invoked[k2] = p[2]

(***************************************************************************)
(* What the registry binds to a name, stated apart from its methods.       *)
(***************************************************************************)
\* what a plugin object runs: its kind and, for a wrapper, the wrapped class
ImplementationOf(plugin) == <<plugin.kind, plugin.module_class>>

\* the implementation bound to a name, <<>> when the name was never registered
Implementation(r, name) ==
    IF name \in DOMAIN r.pm THEN ImplementationOf(r.pm[name])
    ELSE IF name \in DOMAIN r.discovered_plugins
    THEN ImplementationOf(r.discovered_plugins[name])
    ELSE IF name \in DOMAIN r.legacy_registry
    THEN <<"LegacyModuleWrapper", r.legacy_registry[name]>>
    ELSE <<>>

\* the origin recorded for a name, <<>> when none is
Origin(r, name) == IF name \in DOMAIN r.origins THEN <<r.origins[name]>> ELSE <<>>

\* the names the registry knows
KnownNames(r) == DOMAIN r.pm \cup DOMAIN r.discovered_plugins \cup DOMAIN r.legacy_registry

(***************************************************************************)
(* C15: the first registration of a name wins: whatever registrations      *)
(* follow (register_legacy_module again, entry-point discovery, wrapping   *)
(* of legacy modules, built-in registration), the implementation and the   *)
(* origin bound to the name stay those of the first one.                   *)
(***************************************************************************)
C15_FirstRegistrationWins ==
    [][(IsCall("register_legacy_module") \/ IsCall("discover_plugins")
            \/ IsCall("initialize_plugins")) =>
          \A name \in KnownNames(plugin_registry) :
              /\ Implementation(plugin_registry', name) = Implementation(plugin_registry, name)
              /\ Origin(plugin_registry, name) # <<>> =>
                     Origin(plugin_registry', name) = Origin(plugin_registry, name)]_vars

(***************************************************************************)
(* The order Kahn's loop emits, before the final sort (pipeline.py:        *)
(* 336-346), as indices into steps.                                        *)
(***************************************************************************)
TopologicalPass(steps, sequence) ==
    LET indeg == InDegree(steps)
        order_map == OrderMap(steps, sequence)
        ready == SortByKey(Filter(DictKeys(NamesOf(steps)),
                                  {n \in DOMAIN indeg : indeg[n] = 0}), order_map)
        result == KahnLoop(ready, <<>>, indeg, Edges(steps), order_map).result
    IN  [j \in DOMAIN result |-> NameMap(steps, result[j])]

\* position of step i in a list of steps
PositionIn(order, i) == CHOOSE k \in DOMAIN order : order[k] = i

\* the sequence hint names step i
Hinted(i) == toml.steps[i].name \in Range(toml.sequence)

(***************************************************************************)
(* C16: when a sequence hint is present, the steps the hint does not       *)
(* mention come after all hinted steps in the final order and keep, among  *)
(* themselves, the relative order the topological pass gave them.          *)
(***************************************************************************)
C16_UnhintedKeepResolvedOrder ==
    (Resolved /\ toml.sequence # <<>>) =>
        LET pass == TopologicalPass(toml.steps, toml.sequence) IN
        \A a, b \in DOMAIN toml.steps :
            /\ (Hinted(a) /\ ~Hinted(b)) => Position(a) < Position(b)
            /\ (~Hinted(a) /\ ~Hinted(b) /\ PositionIn(pass, a) < PositionIn(pass, b)) =>
                  Position(a) < Position(b)

(***************************************************************************)
(* C17: among simultaneously ready steps ties are broken by one composite  *)
(* key: a step's position in the sequence hint if the hint gives it one,   *)
(* else its declared order if it has one, else its declaration index; in   *)
(* particular a step the hint does not mention is still ranked by its      *)
(* declared order when a hint is present.                                  *)
(***************************************************************************)
\* the steps ready for the k-th selection of a pass: not yet emitted, every in-pipeline
\* depends emitted
ReadyIn(order, k) ==
    LET emitted == {order[j] : j \in 1..(k - 1)} IN
    {i \in DOMAIN toml.steps \ emitted :
        \A j \in DOMAIN toml.steps :
            toml.steps[j].name \in toml.steps[i].depends => j \in emitted}

\* the claim's key puts step a before step b; it is taken to say nothing of a step with
\* a declared order against one without
ClaimedBefore(a, b) ==
    IF Hinted(a) /\ Hinted(b) THEN HintIndex(toml.steps[a].name) < HintIndex(toml.steps[b].name)
    ELSE IF Hinted(a) # Hinted(b) THEN Hinted(a)
    ELSE IF toml.steps[a].order # <<>> /\ toml.steps[b].order # <<>>
    THEN TupleLess(<<toml.steps[a].order[1], a>>, <<toml.steps[b].order[1], b>>)
    ELSE IF toml.steps[a].order = <<>> /\ toml.steps[b].order = <<>>
    THEN a < b
    ELSE TRUE

C17_TieBreakByHintOrderIndex ==
    Resolved =>
        LET pass == TopologicalPass(toml.steps, toml.sequence) IN
        \A k \in DOMAIN pass :
            \A i \in ReadyIn(pass, k) \ {pass[k]} : ClaimedBefore(pass[k], i)

\* the key of the code: under a hint the hint position, else 10000 plus the declaration
\* index; without a hint the declared order, else 10000; then the declaration index
TieKey(i) ==
    IF toml.sequence # <<>>
    THEN <<IF Hinted(i) THEN HintIndex(toml.steps[i].name) ELSE 10000 + i, i>>
    ELSE Rank(i)

C17_TieBreakByKey ==
    Resolved =>
        LET pass == TopologicalPass(toml.steps, toml.sequence) IN
        \A k \in DOMAIN pass :
            /\ pass[k] \in ReadyIn(pass, k)
            /\ \A i \in ReadyIn(pass, k) \ {pass[k]} : TupleLess(TieKey(pass[k]), TieKey(i))

\* under a hint, two unhinted steps were ready together and the one declared first was
\* emitted although its declared order is the larger
C17_Witness ==
    /\ Resolved
    /\ toml.sequence # <<>>
    /\ LET pass == TopologicalPass(toml.steps, toml.sequence) IN
       \E k \in DOMAIN pass :
           \E i \in ReadyIn(pass, k) \ {pass[k]} :
               /\ ~Hinted(i) /\ ~Hinted(pass[k])
               /\ toml.steps[i].order # <<>> /\ toml.steps[pass[k]].order # <<>>
               /\ toml.steps[i].order[1] < toml.steps[pass[k]].order[1]

(***************************************************************************)
(* C18: when _resolve_order fails, the node list of the error is exactly   *)
(* the set of steps whose in-degree is still nonzero after Kahn's loop     *)
(* (the steps the loop did not emit), and every node of the list forms or  *)
(* is part of a dependency cycle.                                          *)
(***************************************************************************)
\* the node list of the RuntimeError, as a set of step indices
CycleList ==
    {NameMap(toml.steps, n) : n \in Range(ResolveOrder(toml.steps, toml.sequence).cycle)}

\* the steps Kahn's loop never emits
NotEmitted == DOMAIN toml.steps \ Range(TopologicalPass(toml.steps, toml.sequence))

\* the steps that lie on a cycle of depends
OnCycle == {i \in DOMAIN toml.steps : <<i, i>> \in DependsPath(toml.steps)}

\* the steps on a cycle and those from which a chain of depends leads to one
BehindCycle ==
    LET paths == DependsPath(toml.steps)
        cyclic == {i \in DOMAIN toml.steps : <<i, i>> \in paths}
    IN  {i \in DOMAIN toml.steps : i \in cyclic \/ \E j \in cyclic : <<i, j>> \in paths}

C18_ErrorListsCycleNodes ==
    (pc = "raised" /\ UniqueNames(toml.steps)) =>
        /\ CycleList = NotEmitted
        /\ CycleList \subseteq OnCycle

C18_ErrorListsBlockedNodes ==
    (pc = "raised" /\ UniqueNames(toml.steps)) =>
        /\ CycleList = NotEmitted
        /\ CycleList = BehindCycle

\* the error lists a step that is on no cycle, next to one that is
C18_Witness ==
    /\ pc = "raised"
    /\ CycleList \ OnCycle # {}
    /\ CycleList \cap OnCycle # {}
    /\ CycleList # DOMAIN toml.steps

(***************************************************************************)
(* C19: a step is invoked with its own config.input if set, else with the  *)
(* pipeline's global_input; a step with neither is never invoked and       *)
(* leaves no error, and the steps after it in the resolved order are still *)
(* processed.                                                              *)
(***************************************************************************)
\* step i as declared has neither its own input nor a global one
NoInput(i) == toml.steps[i].config.input = "" /\ toml.global_input = ""

\* the step of the given name has an entry in the step reports
Reported(i) == \E k \in DOMAIN step_reports : step_reports[k].name = toml.steps[i].name

\* the run neither invokes nor reports a step with no input, has attempted every enabled
\* step with input that it has passed, and ends either past the last step or at a failed
\* step that has input and does not skip on error
SkippedForLackOfInput ==
    /\ \A i \in DOMAIN toml.steps :
          (toml.steps[i].enabled /\ NoInput(i)) => i \notin Range(invoked) /\ ~Reported(i)
    /\ \A k \in DOMAIN ordered_steps :
          LET i == ordered_steps[k] IN
          (k < idx /\ toml.steps[i].enabled /\ ~NoInput(i)) => i \in Range(invoked) /\ Reported(i)
    /\ (pc \in {"break", "done"} /\ idx <= Len(ordered_steps)) =>
          LET i == ordered_steps[idx] IN
          /\ toml.steps[i].enabled /\ ~NoInput(i) /\ ~toml.steps[i].skip_on_error
          /\ i \in Range(invoked)

\* the input the step is invoked with, when its aliases are merged first
InputWithAlias(step) ==
    IF step.config.input # "" THEN step.config.input
    ELSE IF step.config.path # "" THEN step.config.path
    ELSE toml.global_input

Entered == {k \in DOMAIN ordered_steps : k < idx \/ (k = idx /\ pc \in {"break", "done"})}

\* the steps the run attempted to resolve and invoke, in execution order
Attempted ==
    LET attempt(k) == /\ k \in Entered
                      /\ toml.steps[ordered_steps[k]].enabled
                      /\ ~NoInput(ordered_steps[k])
        positions == SelectSeq([k \in DOMAIN ordered_steps |-> k], attempt)
    IN  [n \in DOMAIN positions |-> ordered_steps[positions[n]]]

C20_OneReportPerAttempt ==
    (pc = "done" /\ toml.enable) =>
        /\ Len(step_reports) = Len(Attempted)
        /\ \A n \in DOMAIN step_reports :
              LET step == toml.steps[Attempted[n]]
                  entry == step_reports[n]
              IN  /\ DOMAIN entry = {"name", "module", "order", "error", "data"}
                  /\ entry.name = step.name
                  /\ entry.module = step.module
                  /\ entry.order = step.order
                  /\ entry.error # <<>> <=>
                        (Instantiate(step) = "" \/ step.config.opts = "invalid")

(***************************************************************************)
(* C21: the payload the executor reads back for a step is                  *)
(* context.shared[step.module] whenever that key is present, whatever      *)
(* value it holds; context.shared[step.name] is used only when the module  *)
(* key is absent, and the payload is empty only when both are absent (or   *)
(* the entry read is itself empty).                                        *)
(***************************************************************************)
\* the read-back by presence of the keys
PayloadByKey(sh, step) ==
    IF step.module \in DOMAIN sh THEN sh[step.module]
    ELSE IF step.name \in DOMAIN sh THEN sh[step.name]
    ELSE EmptyData

\* the step of the loop iteration that has just appended its report entry
ReportedStep == toml.steps[ordered_steps[idx]]

FailingSources ==
    {environment.entry_points[k].name : k \in {j \in DOMAIN environment.entry_points :
                                                  ~environment.entry_points[j].loads}}

\* the step calls discovery again on a registry on which discovery has just completed
DiscoversAgain ==
    \/ IsCall("discover_plugins") /\ last_call.op = "discover_plugins"
    \/ IsCall("initialize_plugins") /\ initialized

C22_DiscoveryIdempotent ==
    [][/\ DiscoversAgain =>
             /\ plugin_registry'.pm = plugin_registry.pm
             /\ plugin_registry'.discovered_plugins = plugin_registry.discovered_plugins
             /\ plugin_registry'.origins = plugin_registry.origins
       /\ (IsCall("discover_plugins") \/ IsCall("initialize_plugins")) =>
             /\ last_call'.ret
             /\ \A name \in FailingSources : ~HasPlugin(plugin_registry', name)]_vars

\* discovery ran twice in a row over an installation with a failing entry point, and
\* plugins are registered
C22_Witness ==
    /\ prev_call.op = "discover_plugins"
    /\ last_call.op = "discover_plugins"
    /\ FailingSources # {}
    /\ DOMAIN plugin_registry.pm # {}
    /\ DOMAIN plugin_registry.discovered_plugins # {}

(***************************************************************************)
(* C23: LegacyModuleWrapper.run never lets an exception escape: when       *)
(* instantiating the legacy class or calling its run raises, it returns a  *)
(* mapping with ok false and error set to the message; a mapping returned  *)
(* by the legacy run is returned unchanged; any other value, None          *)
(* included, is wrapped in a mapping with ok true.                         *)
(***************************************************************************)
\* what the legacy class of the last run does
LastBehaviour == environment.classes[last_call.name]

C23_WrapperNeverRaises ==
    last_call.op = "run" =>
        LET out == last_call.ret
            b == LastBehaviour
        IN  /\ ~out.raised
            /\ IsInstanceDict(out.value)
            /\ b.init.raised =>
                  out.value.items.ok = FALSE /\ out.value.items.error = b.init.message
            /\ (~b.init.raised /\ b.run.raised) =>
                  out.value.items.ok = FALSE /\ out.value.items.error = b.run.message
            /\ (~b.init.raised /\ ~b.run.raised /\ IsInstanceDict(b.run.value)) =>
                  out.value = b.run.value
            /\ (~b.init.raised /\ ~b.run.raised /\ ~IsInstanceDict(b.run.value)) =>
                  out.value.items.ok = TRUE /\ out.value.items.result = b.run.value

\* one wrapper was run over a class that fails to instantiate, after another over a
\* class whose run returns None
C23_Witness ==
    /\ last_call.op = "run"
    /\ prev_call.op = "run"
    /\ LastBehaviour.init.raised
    /\ ~last_call.ret.raised
    /\ environment.classes[prev_call.name].run.value = PyNone
    /\ ~environment.classes[prev_call.name].init.raised
    /\ prev_call.ret.value.items.ok = TRUE

(***************************************************************************)
(* C24: for every commit history with any interleaving of tagged and       *)
(* untagged commits, get_history(limit) returns only tagged commits, most  *)
(* recent first, and returns min(limit, number of tagged commits) of them, *)
(* namely the most recent ones.                                            *)
(***************************************************************************)
\* the tagged commits of the history, most recent first
TaggedNewestFirst(cs) ==
    LET tagged(i) == cs[i].tagged IN SelectSeq(IterCommits(cs, Len(cs)), tagged)

C24_HistoryListsRecentTagged ==
    \A k \in DOMAIN undo_log :
        undo_log[k].op = "get_history" =>
            LET all == TaggedNewestFirst(commits)
                limit == undo_log[k].ret.limit
                n == IF Len(all) < limit THEN Len(all) ELSE limit
                history == undo_log[k].ret.history
            IN  /\ Len(history) = n
                /\ \A j \in 1..Len(history) :
                      /\ j <= Len(all)
                      /\ history[j].id = all[j]
                      /\ history[j].summary = commits[all[j]].summary

(***************************************************************************)
(* C25: during a run, a step's invocation only adds or overwrites the      *)
(* context.shared entry keyed by its own module or step name, and never    *)
(* changes an entry that an earlier step wrote, also when two steps are    *)
(* bound to the same module.                                               *)
(***************************************************************************)
\* the entries of context.shared that steps wrote
StepEntries(sh) == DOMAIN sh \ {"__dry_run"}

\* the keys that name a step: its module, its name, and for the header adapter the name
\* of the module it adapts
OwnKeys(step) ==
    {step.module, step.name} \cup
    (IF step.module = HeaderAdapter[1] THEN {"consecutive_header"} ELSE {})

C25_StepsWriteOwnEntry ==
    [][(pc = "loop" /\ idx <= Len(ordered_steps) /\ idx' > 0) =>
          /\ StepEntries(shared') \ StepEntries(shared) \subseteq OwnKeys(ReportedStep)
          /\ \A key \in StepEntries(shared) :
                 key \in DOMAIN shared' /\ shared'[key] = shared[key]]_vars

(***************************************************************************)
(* C27: the data of a step's report entry is a value written to            *)
(* context.shared during that step's own invocation, or is empty when the  *)
(* invocation wrote nothing (for example because it raised); it is never a *)
(* value an earlier step left in context.shared.                           *)
(***************************************************************************)
\* the entry is empty, or the step ran without raising and the entry holds what is in
\* context.shared under one of its own keys after its run
C27_ReportDataIsOwn ==
    [][Len(step_reports') = Len(step_reports) + 1 =>
          LET entry == step_reports'[Len(step_reports')] IN
          \/ entry.data = EmptyData
          \/ /\ entry.error = <<>>
             /\ \E key \in OwnKeys(ReportedStep) \cap DOMAIN shared' :
                   entry.data = shared'[key]]_vars

(***************************************************************************)
(* C26: in every state of the plugin registry reachable by calls of        *)
(* register_legacy_module, discover_plugins, initialize_plugins, enable    *)
(* and disable, a name in the disabled set is absent from the live         *)
(* dispatch table; only enable(name) brings a disabled module back.        *)
(***************************************************************************)
C26_DisabledIsAbsent ==
    [][/\ \A name \in plugin_registry'.disabled : ~HasPlugin(plugin_registry', name)
       /\ \A name \in plugin_registry.disabled :
             (~HasPlugin(plugin_registry, name) /\ HasPlugin(plugin_registry', name)) =>
                 (IsCall("enable") /\ last_call'.name = name)]_vars

(***************************************************************************)
(* C28: for the run command with undo enabled and no dry run, whatever the *)
(* working tree held before the run (clean or with uncommitted changes)    *)
(* and whether or not the module changed a file, a following undo with no  *)
(* commit id leaves the working tree equal to its content immediately      *)
(* before the module ran.                                                  *)
(***************************************************************************)
C28_UndoAfterRun ==
    \A k \in DOMAIN undo_log :
        (k + 1 \in DOMAIN undo_log /\ undo_log[k].op = "run"
            /\ undo_log[k + 1].op = "undo_latest") =>
                undo_log[k + 1].worktree = undo_log[k].ret.before

(***************************************************************************)
(* C29: for every list of step declarations whose depends edges contain no *)
(* cycle, a list in which two declarations share a name included,          *)
(* _resolve_order succeeds and returns every declared step exactly once;   *)
(* it raises the cycle error only when a dependency cycle exists, and then *)
(* with a non-empty node list.                                             *)
(***************************************************************************)
C29_ResolvesWithoutCycle ==
    /\ (pc # "start" /\ ~HasCycle(toml.steps)) =>
          /\ pc # "raised"
          /\ Len(ordered_steps) = Len(toml.steps)
          /\ Range(ordered_steps) = DOMAIN toml.steps
    /\ pc = "raised" =>
          /\ HasCycle(toml.steps)
          /\ ResolveOrder(toml.steps, toml.sequence).cycle # <<>>

(***************************************************************************)
(* C30: after disable(name) on the plugin registry and until enable(name)  *)
(* is called, the executor does not invoke a pipeline step whose module is *)
(* name: resolving the step fails and is reported as a step error.         *)
(***************************************************************************)
\* the loop iteration handles a step whose module the last call on the initialised
\* registry disabled
RunsDisabledStep ==
    /\ pc = "loop"
    /\ idx <= Len(ordered_steps)
    /\ idx' = idx + 1 \/ pc' = "break"
    /\ initialized
    /\ last_call.op = "disable"
    /\ ReportedStep.enabled
    /\ ReportedStep.module = last_call.name

C30_DisabledModuleNotInvoked ==
    [][RunsDisabledStep =>
          /\ invoked' = invoked
          /\ \/ pc' = "break"
             \/ /\ Len(step_reports') = Len(step_reports) + 1
                /\ step_reports'[Len(step_reports')].name = ReportedStep.name
                /\ step_reports'[Len(step_reports')].error # <<>>]_vars
====
